---- MODULE Spec2Model ----
(***************************************************************************)
(* State-machine model of the ZoomDesktop component (pan / zoom / pin      *)
(* image viewer).  Every React ref and every useState cell of the          *)
(* component is a variable; every event handler is an action that runs to  *)
(* completion together with the state updaters it schedules and the commit *)
(* that follows (React flushes them before the next event is dispatched).  *)
(*                                                                         *)
(* JavaScript numbers are modelled as exact rationals <<n, d>> in lowest   *)
(* terms with d >= 0; d = 0 encodes the IEEE results of a division by zero *)
(* (<<1,0>> = +Infinity, <<-1,0>> = -Infinity, <<0,0>> = NaN).             *)
(***************************************************************************)
EXTENDS Integers, Sequences, FiniteSets, TLC

(***************************************************************************)
(* Bounds of the model and sample geometry.                                *)
(***************************************************************************)

\* largest |movementX|, |movementY| of one mousemove event, in pixels
MaxMove == 1

\* natural size of the picture behind SRC (img.width, img.height)
ImageSizes == {<<10, 10>>}

\* clientWidth / clientHeight the large container can have when it mounts
ContainerSizes == {<<28, 28>>, <<29, 28>>}

\* top-left corner getBoundingClientRect() reports for the image element
BoxOrigins == {<<1, 1>>}

Moves == (-MaxMove) .. MaxMove

\* largest side, in pixels, of the small pictures and containers that the
\* zoom range is computed for
MaxSide == 2

\* natural sizes and container sizes for the zoom range: every small size,
\* a container side of 0 included, and the sizes of the worked examples
FitImageSizes ==
  ((1 .. MaxSide) \X (1 .. MaxSide)) \cup {<<2000, 1000>>, <<300, 200>>}

FitContainerSizes == ((0 .. MaxSide) \X (0 .. MaxSide)) \cup {<<500, 500>>}

\* clientX, clientY of the dblclick events
ClickPoints == {<<2, 3>>}

(***************************************************************************)
(* Rational arithmetic standing for JavaScript number arithmetic.          *)
(***************************************************************************)

Abs(n) == IF n < 0 THEN -n ELSE n

Sign(n) == IF n < 0 THEN -1 ELSE IF n > 0 THEN 1 ELSE 0

RECURSIVE GCD(_, _)
GCD(a, b) == IF b = 0 THEN a ELSE GCD(b, a % b)

\* the number n/d, in lowest terms
Rat(n, d) ==
  IF d = 0 THEN <<Sign(n), 0>>
  ELSE LET g == GCD(Abs(n), Abs(d))
           s == IF d < 0 THEN -1 ELSE 1
       IN  <<(s * n) \div g, (s * d) \div g>>

Num(n) == <<n, 1>>

RAdd(a, b) == Rat(a[1] * b[2] + b[1] * a[2], a[2] * b[2])

RSub(a, b) == Rat(a[1] * b[2] - b[1] * a[2], a[2] * b[2])

RMul(a, b) == Rat(a[1] * b[1], a[2] * b[2])

RDiv(a, b) == Rat(a[1] * b[2], a[2] * b[1])

RNeg(a) == <<-a[1], a[2]>>

RLe(a, b) == a[1] * b[2] <= b[1] * a[2]

RLt(a, b) == a[1] * b[2] < b[1] * a[2]

\* Math.max, Math.min
MathMax(a, b) == IF RLe(a, b) THEN b ELSE a

MathMin(a, b) == IF RLe(a, b) THEN a ELSE b

\* the literals 0.1, 2 and 3 of the source
ZoomStep == Rat(1, 10)

Two == Num(2)

ZoomMax == Num(3)

(***************************************************************************)
(* clamp                                                                   *)
(***************************************************************************)

clamp(x, min, max) == MathMax(min, MathMin(x, max))

(***************************************************************************)
(* State: the refs and the useState cells of the component.                *)
(***************************************************************************)
VARIABLES
  shouldDisplayModal,  \* useState(false)
  imageData,           \* imageDataRef.current
  imageLoaded,         \* whether img.onload has run
  naturalSize,         \* the size img.onload will report
  containerData,       \* containerDataRef.current
  offsetData,          \* offsetDataRef.current
  zoomData,            \* zoomDataRef.current
  dragData,            \* dragDataRef.current
  dragOffset,          \* useState({x: 0, y: 0})
  zoomLevel,           \* useState(1)
  pin,                 \* useState({x: 0, y: 0})
  last,                \* history: the kind of the last event handled
  placed,              \* history: the last dblclick (offset from the box, zoom)
  measured             \* history: imageDataRef.current at the last container load

progVars == <<shouldDisplayModal, imageData, imageLoaded, naturalSize,
              containerData, offsetData, zoomData, dragData, dragOffset,
              zoomLevel, pin>>

vars == <<shouldDisplayModal, imageData, imageLoaded, naturalSize,
          containerData, offsetData, zoomData, dragData, dragOffset,
          zoomLevel, pin, last, placed, measured>>

NoPlacement == [set |-> FALSE, dx |-> 0, dy |-> 0, zoom |-> Num(1)]

InitOf(sizes) ==
  /\ shouldDisplayModal = FALSE
  /\ imageData = [width |-> Num(1), height |-> Num(1)]
  /\ imageLoaded = FALSE
  /\ naturalSize \in sizes
  /\ containerData = [width |-> Num(1), height |-> Num(1), imageRef |-> "null"]
  /\ offsetData = [baseX |-> Num(0), baseY |-> Num(0),
                   dragX |-> Num(0), dragY |-> Num(0)]
  /\ zoomData = [min |-> Num(1), max |-> Num(3), current |-> Num(1)]
  /\ dragData = [isDragging |-> FALSE]
  /\ dragOffset = [x |-> Num(0), y |-> Num(0)]
  /\ zoomLevel = Num(1)
  /\ pin = [x |-> Num(0), y |-> Num(0)]
  /\ last = "init"
  /\ placed = NoPlacement
  /\ measured = [width |-> Num(1), height |-> Num(1)]

Init == InitOf(ImageSizes)

InitFit == InitOf(FitImageSizes)

(***************************************************************************)
(* Image load: img.onload stores the natural size, nothing else.           *)
(***************************************************************************)
imageOnloadRefits ==
  LET iw == Num(naturalSize[1])
      ih == Num(naturalSize[2])
  IN  /\ imageData' = [width |-> iw, height |-> ih]
      /\ imageLoaded' = TRUE
      /\ offsetData' =
           [offsetData EXCEPT
              !.baseX = RDiv(RSub(iw, containerData.width), Two),
              !.baseY = RDiv(RSub(ih, containerData.height), Two)]
      /\ UNCHANGED <<shouldDisplayModal, naturalSize, containerData,
                     zoomData, dragData, dragOffset, zoomLevel, pin>>

imageOnload ==
  /\ imageData' = [width |-> Num(naturalSize[1]), height |-> Num(naturalSize[2])]
  /\ imageLoaded' = TRUE
  /\ UNCHANGED <<shouldDisplayModal, naturalSize, containerData, offsetData,
                 zoomData, dragData, dragOffset, zoomLevel, pin>>

(***************************************************************************)
(* Container load: the ref callback of the large container.                *)
(***************************************************************************)

fitZoomWidthOnly(iw, ih, cw, ch) ==
  IF RLt(cw, iw) THEN RDiv(cw, iw) ELSE Num(1)

fitZoomBothAxes(iw, ih, cw, ch) ==
  IF RLt(cw, iw) /\ RLt(ch, ih)
  THEN MathMin(RDiv(cw, iw), RDiv(ch, ih))
  ELSE Num(1)

fitZoomLarger(iw, ih, cw, ch) ==
  IF RLt(cw, iw) \/ RLt(ch, ih)
  THEN MathMax(RDiv(cw, iw), RDiv(ch, ih))
  ELSE Num(1)

fitZoomFill(iw, ih, cw, ch) == MathMin(RDiv(cw, iw), RDiv(ch, ih))

\* the default zoom level for the image to fit inside the container
fitZoom(iw, ih, cw, ch) ==
  IF RLt(cw, iw) \/ RLt(ch, ih)
  THEN MathMin(RDiv(cw, iw), RDiv(ch, ih))
  ELSE Num(1)

\* onLoadContainer(r) with r an element of clientWidth w and clientHeight h;
\* cd is containerDataRef.current as the earlier ref callbacks of the same
\* commit left it
onLoadContainer(cd, w, h) ==
  LET zl == fitZoom(imageData.width, imageData.height, Num(w), Num(h))
  IN  /\ containerData' = [cd EXCEPT !.width = Num(w), !.height = Num(h)]
      /\ zoomData' = [min |-> zl, max |-> ZoomMax, current |-> zl]
      /\ zoomLevel' = zl
      /\ offsetData' = [baseX |-> RDiv(RSub(imageData.width, Num(w)), Two),
                        baseY |-> RDiv(RSub(imageData.height, Num(h)), Two),
                        dragX |-> Num(0), dragY |-> Num(0)]
      /\ dragOffset' = [x |-> Num(0), y |-> Num(0)]

\* onLoadImage(r) with r an element: remembers the image element
onLoadImage(cd) == [cd EXCEPT !.imageRef = "div"]

openModalResetDrag(w, h) ==
  /\ shouldDisplayModal = FALSE
  /\ shouldDisplayModal' = TRUE
  /\ onLoadContainer(onLoadImage(containerData), w, h)
  /\ dragData' = [isDragging |-> FALSE]
  /\ UNCHANGED <<imageData, imageLoaded, naturalSize, pin>>

openModalResetPin(w, h) ==
  /\ shouldDisplayModal = FALSE
  /\ shouldDisplayModal' = TRUE
  /\ onLoadContainer(onLoadImage(containerData), w, h)
  /\ pin' = [x |-> Num(0), y |-> Num(0)]
  /\ UNCHANGED <<imageData, imageLoaded, naturalSize, dragData>>

\* onToggleModal while closed: the large view is rendered and committed, so
\* the ref callbacks run, the image element's before its parent's
openModal(w, h) ==
  /\ shouldDisplayModal = FALSE
  /\ shouldDisplayModal' = TRUE
  /\ onLoadContainer(onLoadImage(containerData), w, h)
  /\ UNCHANGED <<imageData, imageLoaded, naturalSize, dragData, pin>>

closeModalResets ==
  /\ shouldDisplayModal = TRUE
  /\ shouldDisplayModal' = FALSE
  /\ zoomData' = [zoomData EXCEPT !.current = zoomData.min]
  /\ zoomLevel' = zoomData.min
  /\ offsetData' = [offsetData EXCEPT !.dragX = Num(0), !.dragY = Num(0)]
  /\ dragOffset' = [x |-> Num(0), y |-> Num(0)]
  /\ UNCHANGED <<imageData, imageLoaded, naturalSize, containerData,
                 dragData, pin>>

\* onToggleModal while open: the large view unmounts, the ref callbacks run
\* with null and do nothing
closeModal ==
  /\ shouldDisplayModal = TRUE
  /\ shouldDisplayModal' = FALSE
  /\ UNCHANGED <<imageData, imageLoaded, naturalSize, containerData,
                 offsetData, zoomData, dragData, dragOffset, zoomLevel, pin>>

(***************************************************************************)
(* Zoom functions.                                                         *)
(***************************************************************************)

\* Math.max(imageDim * zoom - containerDim, 0)
oversize(imageDim, containerDim, zoom) ==
  MathMax(RSub(RMul(imageDim, zoom), containerDim), Num(0))

\* clamp(v, -oversize / 2, oversize / 2)
clampAxis(v, os) == clamp(v, RDiv(RNeg(os), Two), RDiv(os, Two))

zoomInNoClamp ==
  LET nz == RAdd(zoomLevel, ZoomStep)
  IN  /\ zoomData' = [zoomData EXCEPT !.current = nz]
      /\ zoomLevel' = nz
      /\ UNCHANGED <<shouldDisplayModal, imageData, imageLoaded, naturalSize,
                     containerData, offsetData, dragData, dragOffset, pin>>

zoomInFromMin ==
  LET nz == clamp(RAdd(zoomData.min, ZoomStep), zoomData.min, zoomData.max)
  IN  /\ zoomData' = [zoomData EXCEPT !.current = nz]
      /\ zoomLevel' = nz
      /\ UNCHANGED <<shouldDisplayModal, imageData, imageLoaded, naturalSize,
                     containerData, offsetData, dragData, dragOffset, pin>>

zoomInRecentres ==
  LET nz == clamp(RAdd(zoomLevel, ZoomStep), zoomData.min, zoomData.max)
  IN  /\ zoomData' = [zoomData EXCEPT !.current = nz]
      /\ zoomLevel' = nz
      /\ offsetData' = [offsetData EXCEPT !.dragX = Num(0), !.dragY = Num(0)]
      /\ dragOffset' = [x |-> Num(0), y |-> Num(0)]
      /\ UNCHANGED <<shouldDisplayModal, imageData, imageLoaded, naturalSize,
                     containerData, dragData, pin>>

zoomInStateOnly ==
  LET nz == clamp(RAdd(zoomLevel, ZoomStep), zoomData.min, zoomData.max)
  IN  /\ zoomLevel' = nz
      /\ UNCHANGED <<shouldDisplayModal, imageData, imageLoaded, naturalSize,
                     containerData, offsetData, zoomData, dragData,
                     dragOffset, pin>>

zoomIn ==
  LET nz == clamp(RAdd(zoomLevel, ZoomStep), zoomData.min, zoomData.max)
  IN  /\ zoomData' = [zoomData EXCEPT !.current = nz]
      /\ zoomLevel' = nz
      /\ UNCHANGED <<shouldDisplayModal, imageData, imageLoaded, naturalSize,
                     containerData, offsetData, dragData, dragOffset, pin>>

zoomOutNoReclamp ==
  LET nz == clamp(RSub(zoomLevel, ZoomStep), zoomData.min, zoomData.max)
  IN  /\ zoomData' = [zoomData EXCEPT !.current = nz]
      /\ zoomLevel' = nz
      /\ UNCHANGED <<shouldDisplayModal, imageData, imageLoaded, naturalSize,
                     containerData, offsetData, dragData, dragOffset, pin>>

zoomOutOldZoom ==
  LET nz == clamp(RSub(zoomLevel, ZoomStep), zoomData.min, zoomData.max)
      oversizeX == oversize(imageData.width, containerData.width, zoomLevel)
      oversizeY == oversize(imageData.height, containerData.height, zoomLevel)
      x == clampAxis(dragOffset.x, oversizeX)
      y == clampAxis(dragOffset.y, oversizeY)
  IN  /\ zoomData' = [zoomData EXCEPT !.current = nz]
      /\ zoomLevel' = nz
      /\ offsetData' = [offsetData EXCEPT !.dragX = x, !.dragY = y]
      /\ dragOffset' = [x |-> x, y |-> y]
      /\ UNCHANGED <<shouldDisplayModal, imageData, imageLoaded, naturalSize,
                     containerData, dragData, pin>>

zoomOut ==
  LET nz == clamp(RSub(zoomLevel, ZoomStep), zoomData.min, zoomData.max)
      oversizeX == oversize(imageData.width, containerData.width, nz)
      oversizeY == oversize(imageData.height, containerData.height, nz)
      x == clampAxis(dragOffset.x, oversizeX)
      y == clampAxis(dragOffset.y, oversizeY)
  IN  /\ zoomData' = [zoomData EXCEPT !.current = nz]
      /\ zoomLevel' = nz
      /\ offsetData' = [offsetData EXCEPT !.dragX = x, !.dragY = y]
      /\ dragOffset' = [x |-> x, y |-> y]
      /\ UNCHANGED <<shouldDisplayModal, imageData, imageLoaded, naturalSize,
                     containerData, dragData, pin>>

(***************************************************************************)
(* Drag functions.                                                         *)
(***************************************************************************)

onDragStart ==
  /\ dragData' = [dragData EXCEPT !.isDragging = TRUE]
  /\ UNCHANGED <<shouldDisplayModal, imageData, imageLoaded, naturalSize,
                 containerData, offsetData, zoomData, dragOffset, zoomLevel,
                 pin>>

onDragMoveUnguarded(mx, my) ==
  LET oversizeX == oversize(imageData.width, containerData.width,
                            zoomData.current)
      oversizeY == oversize(imageData.height, containerData.height,
                            zoomData.current)
      x == clampAxis(RSub(dragOffset.x, Num(mx)), oversizeX)
      y == clampAxis(RSub(dragOffset.y, Num(my)), oversizeY)
  IN  /\ offsetData' = [offsetData EXCEPT !.dragX = x, !.dragY = y]
      /\ dragOffset' = [x |-> x, y |-> y]
      /\ UNCHANGED <<shouldDisplayModal, imageData, imageLoaded, naturalSize,
                     containerData, zoomData, dragData, zoomLevel, pin>>

onDragMoveAdds(mx, my) ==
  IF dragData.isDragging
  THEN LET oversizeX == oversize(imageData.width, containerData.width,
                                 zoomData.current)
           oversizeY == oversize(imageData.height, containerData.height,
                                 zoomData.current)
           x == clampAxis(RAdd(dragOffset.x, Num(mx)), oversizeX)
           y == clampAxis(RAdd(dragOffset.y, Num(my)), oversizeY)
       IN  /\ offsetData' = [offsetData EXCEPT !.dragX = x, !.dragY = y]
           /\ dragOffset' = [x |-> x, y |-> y]
           /\ UNCHANGED <<shouldDisplayModal, imageData, imageLoaded,
                          naturalSize, containerData, zoomData, dragData,
                          zoomLevel, pin>>
  ELSE UNCHANGED progVars

\* onDragMove(e) with e.movementX = mx and e.movementY = my
onDragMove(mx, my) ==
  IF dragData.isDragging
  THEN LET oversizeX == oversize(imageData.width, containerData.width,
                                 zoomData.current)
           oversizeY == oversize(imageData.height, containerData.height,
                                 zoomData.current)
           x == clampAxis(RSub(dragOffset.x, Num(mx)), oversizeX)
           y == clampAxis(RSub(dragOffset.y, Num(my)), oversizeY)
       IN  /\ offsetData' = [offsetData EXCEPT !.dragX = x, !.dragY = y]
           /\ dragOffset' = [x |-> x, y |-> y]
           /\ UNCHANGED <<shouldDisplayModal, imageData, imageLoaded,
                          naturalSize, containerData, zoomData, dragData,
                          zoomLevel, pin>>
  ELSE UNCHANGED progVars

onDragEnd ==
  /\ dragData' = [dragData EXCEPT !.isDragging = FALSE]
  /\ UNCHANGED <<shouldDisplayModal, imageData, imageLoaded, naturalSize,
                 containerData, offsetData, zoomData, dragOffset, zoomLevel,
                 pin>>

(***************************************************************************)
(* Pin.                                                                    *)
(***************************************************************************)

onPinPlaceScreen(cx, cy, bx, by) ==
  IF containerData.imageRef # "null"
  THEN /\ pin' = [x |-> Num(cx - bx), y |-> Num(cy - by)]
       /\ UNCHANGED <<shouldDisplayModal, imageData, imageLoaded, naturalSize,
                      containerData, offsetData, zoomData, dragData,
                      dragOffset, zoomLevel>>
  ELSE UNCHANGED progVars

\* onPinPlace(e) with e.clientX = cx, e.clientY = cy, and <<bx, by>> the
\* corner getBoundingClientRect() reports for the image element
onPinPlace(cx, cy, bx, by) ==
  IF containerData.imageRef # "null"
  THEN /\ pin' = [x |-> RDiv(Num(cx - bx), zoomData.current),
                  y |-> RDiv(Num(cy - by), zoomData.current)]
       /\ UNCHANGED <<shouldDisplayModal, imageData, imageLoaded, naturalSize,
                      containerData, offsetData, zoomData, dragData,
                      dragOffset, zoomLevel>>
  ELSE UNCHANGED progVars

pinMarkerUnscaled == [x |-> pin.x, y |-> pin.y]

\* left / top of the pin marker, times the scale of the image element
\* that contains it: where the marker shows, relative to the element's corner
pinMarker == [x |-> RMul(pin.x, zoomLevel), y |-> RMul(pin.y, zoomLevel)]

\* whether the pin marker is part of the output: the marker element is a
\* child of the image element, rendered with it whenever the large view is
pinMarkerRendered == shouldDisplayModal

(***************************************************************************)
(* Events.  The buttons and the image element exist only while the large   *)
(* view is displayed, so their events are delivered only then; the image   *)
(* loads once, at any time.                                                *)
(***************************************************************************)

ImageLoaded ==
  /\ ~imageLoaded
  /\ imageOnload
  /\ last' = "load"
  /\ UNCHANGED <<placed, measured>>

OpenWith(sizes) ==
  /\ \E c \in sizes : openModal(c[1], c[2])
  /\ last' = "open"
  /\ measured' = imageData
  /\ UNCHANGED placed

Open == OpenWith(ContainerSizes)

OpenFit == OpenWith(FitContainerSizes)

Close ==
  /\ closeModal
  /\ last' = "close"
  /\ UNCHANGED <<placed, measured>>

ClickZoomIn ==
  /\ shouldDisplayModal
  /\ zoomIn
  /\ last' = "zoomIn"
  /\ UNCHANGED <<placed, measured>>

ClickZoomOut ==
  /\ shouldDisplayModal
  /\ zoomOut
  /\ last' = "zoomOut"
  /\ UNCHANGED <<placed, measured>>

MouseDown ==
  /\ shouldDisplayModal
  /\ onDragStart
  /\ last' = "pointerDown"
  /\ UNCHANGED <<placed, measured>>

MouseMove ==
  /\ shouldDisplayModal
  /\ \E mx \in Moves, my \in Moves : onDragMove(mx, my)
  /\ last' = "pointerMove"
  /\ UNCHANGED <<placed, measured>>

MouseUp ==
  /\ shouldDisplayModal
  /\ onDragEnd
  /\ last' = "pointerUp"
  /\ UNCHANGED <<placed, measured>>

DblClick ==
  /\ shouldDisplayModal
  /\ \E c \in ClickPoints, b \in BoxOrigins :
       /\ onPinPlace(c[1], c[2], b[1], b[2])
       /\ placed' = [set |-> TRUE, dx |-> c[1] - b[1], dy |-> c[2] - b[2],
                     zoom |-> zoomData.current]
  /\ last' = "doubleClick"
  /\ UNCHANGED measured

Next ==
  \/ ImageLoaded
  \/ Open
  \/ Close
  \/ ClickZoomIn
  \/ ClickZoomOut
  \/ MouseDown
  \/ MouseMove
  \/ MouseUp
  \/ DblClick

Spec == Init /\ [][Next]_vars

\* The same component in a session in which no pin is placed: every event
\* but the double click.  The pin then stays where Init puts it, which keeps
\* the state space small enough to compare each pointerMove with every
\* movement it may carry.
NextDrag ==
  \/ ImageLoaded
  \/ Open
  \/ Close
  \/ ClickZoomIn
  \/ ClickZoomOut
  \/ MouseDown
  \/ MouseMove
  \/ MouseUp

SpecDrag == Init /\ [][NextDrag]_vars

\* The same component with a picture and containers of many sizes, the
\* picture larger than the container and a container side of 0 included, in
\* a session without pointer events: the pan offset stays (0, 0), so the
\* zoom range can be explored for every pair of sizes.
NextFit ==
  \/ ImageLoaded
  \/ OpenFit
  \/ Close
  \/ ClickZoomIn
  \/ ClickZoomOut

SpecFit == InitFit /\ [][NextFit]_vars

(***************************************************************************)
(* The quantities the properties are stated in, written from the           *)
(* statements themselves and not from the operators of the handlers.       *)
(***************************************************************************)

Zero == Num(0)

\* oversize(z) / 2 = max(imageDim * z - containerDim, 0) / 2
PanBound(imageDim, containerDim, z) ==
  LET d == RSub(RMul(imageDim, z), containerDim)
  IN  IF RLt(Zero, d) THEN RDiv(d, Num(2)) ELSE Zero

\* v brought into [lo, hi]
Into(v, lo, hi) == IF RLt(v, lo) THEN lo ELSE IF RLt(hi, v) THEN hi ELSE v

\* clampOffset(offset, image, container, z), with the recorded metrics
ClampOffset(offset, z) ==
  LET bx == PanBound(imageData.width, containerData.width, z)
      by == PanBound(imageData.height, containerData.height, z)
  IN  [x |-> Into(offset.x, RNeg(bx), bx), y |-> Into(offset.y, RNeg(by), by)]

\* step(current, delta) = clamp(current + delta, range.min, range.max)
Step(current, delta) == Into(RAdd(current, delta), zoomData.min, zoomData.max)

Dragging == dragData.isDragging

BaseOffset == <<offsetData.baseX, offsetData.baseY>>

ZoomRange == <<zoomData.min, zoomData.max>>

(***************************************************************************)
(* C1.  In every reachable state the pan offset is within half the         *)
(* oversize of the image at the current zoom level, on both axes:          *)
(* |PanOffset.x| <= max(imageWidth * ZoomLevel - containerWidth, 0) / 2,   *)
(* and likewise for y.                                                     *)
(***************************************************************************)
C1_PanWithinBounds ==
  LET bx == PanBound(imageData.width, containerData.width, zoomLevel)
      by == PanBound(imageData.height, containerData.height, zoomLevel)
  IN  /\ RLe(RNeg(bx), dragOffset.x) /\ RLe(dragOffset.x, bx)
      /\ RLe(RNeg(by), dragOffset.y) /\ RLe(dragOffset.y, by)

\* a zoom-out has left the image panned right up to the bound on both axes
C1_Witness ==
  /\ last = "zoomOut"
  /\ RLt(Zero, dragOffset.x)
  /\ RLt(dragOffset.y, Zero)
  /\ dragOffset.x = PanBound(imageData.width, containerData.width, zoomLevel)
  /\ dragOffset.y =
       RNeg(PanBound(imageData.height, containerData.height, zoomLevel))

(***************************************************************************)
(* C2.  In every reachable state ZoomRange.min <= ZoomLevel <=             *)
(* ZoomRange.max.                                                          *)
(***************************************************************************)
C2_ZoomWithinRange ==
  /\ RLe(zoomData.min, zoomLevel)
  /\ RLe(zoomLevel, zoomData.max)

\* a zoom-in has brought the zoom level to the top of the range
C2_Witness ==
  /\ last = "zoomIn"
  /\ zoomLevel = zoomData.max
  /\ RLt(zoomData.min, zoomLevel)

(***************************************************************************)
(* C3.  The drag session starts Idle; a pointerDown leaves it Dragging, a  *)
(* pointerUp leaves it Idle, and no other event changes it.                *)
(***************************************************************************)
C3_DragStateMachine ==
  /\ ~Dragging
  /\ [][/\ last' = "pointerDown" => Dragging'
        /\ last' = "pointerUp" => ~Dragging'
        /\ last' \notin {"pointerDown", "pointerUp"} => Dragging' = Dragging
       ]_vars

\* a session that is still Dragging after the view was closed and reopened
C3_Witness ==
  /\ Dragging
  /\ last = "open"
  /\ imageLoaded

(***************************************************************************)
(* C4.  A pointerMove delivered while the drag session is Idle changes     *)
(* nothing: pan offset, zoom level, pin, drag session, zoom range and base *)
(* offset are as before.                                                   *)
(***************************************************************************)
C4_IdleMoveIsNoOp ==
  [][(last' = "pointerMove" /\ ~Dragging) =>
       /\ dragOffset' = dragOffset
       /\ zoomLevel' = zoomLevel
       /\ pin' = pin
       /\ Dragging' = Dragging
       /\ ZoomRange' = ZoomRange
       /\ BaseOffset' = BaseOffset
       /\ offsetData' = offsetData
       /\ zoomData' = zoomData
    ]_vars

\* a pointerMove was delivered to an Idle session whose image is panned
C4_Witness ==
  /\ last = "pointerMove"
  /\ ~Dragging
  /\ dragOffset.x # Zero
  /\ dragOffset.y # Zero

(***************************************************************************)
(* C5.  Each zoomIn sets the zoom level to clamp(ZoomLevel + 0.1, min,     *)
(* max) and each zoomOut sets it to clamp(ZoomLevel - 0.1, min, max), the  *)
(* range being left as it is; so a zoomOut at min and a zoomIn at max      *)
(* leave the zoom level unchanged.                                         *)
(***************************************************************************)
C5_ZoomStep ==
  [][/\ last' = "zoomIn" =>
          /\ zoomLevel' = Step(zoomLevel, Rat(1, 10))
          /\ ZoomRange' = ZoomRange
          /\ zoomLevel = zoomData.max => zoomLevel' = zoomLevel
     /\ last' = "zoomOut" =>
          /\ zoomLevel' = Step(zoomLevel, Rat(-1, 10))
          /\ ZoomRange' = ZoomRange
          /\ zoomLevel = zoomData.min => zoomLevel' = zoomLevel
    ]_vars

\* a zoom-out has brought the zoom level strictly inside the range
C5_Witness ==
  /\ last = "zoomOut"
  /\ RLt(zoomData.min, zoomLevel)
  /\ RLt(zoomLevel, zoomData.max)

(***************************************************************************)
(* C6.  After every zoomOut the pan offset is the previous pan offset      *)
(* clamped, each axis on its own, to [-oversize/2, +oversize/2] at the     *)
(* zoom level that zoomOut has produced.                                   *)
(***************************************************************************)
C6_ZoomOutReclamps ==
  [][last' = "zoomOut" => dragOffset' = ClampOffset(dragOffset, zoomLevel')]_vars

\* a zoom-out has left the image panned on the bound of the new zoom level
\* on one axis, and unpanned on the other although that axis has room
C6_Witness ==
  /\ last = "zoomOut"
  /\ RLt(Zero, dragOffset.x)
  /\ dragOffset.x = PanBound(imageData.width, containerData.width, zoomLevel)
  /\ dragOffset.y = Zero
  /\ RLt(Zero, PanBound(imageData.height, containerData.height, zoomLevel))

(***************************************************************************)
(* C7.  A pointerMove(dx, dy) delivered while Dragging keeps the session   *)
(* Dragging and sets the pan offset to the previous offset minus (dx, dy), *)
(* clamped, each axis on its own, to [-oversize/2, +oversize/2] at the     *)
(* zoom level in force.                                                    *)
(***************************************************************************)
C7_DragMovePans ==
  [][\A mx \in Moves, my \in Moves :
       (last' = "pointerMove" /\ Dragging /\ onDragMove(mx, my)) =>
         /\ Dragging'
         /\ zoomLevel' = zoomLevel
         /\ dragOffset' =
              ClampOffset([x |-> RSub(dragOffset.x, Num(mx)),
                           y |-> RSub(dragOffset.y, Num(my))], zoomLevel)
    ]_vars

\* a drag move has left the image panned strictly inside the bounds
C7_Witness ==
  /\ last = "pointerMove"
  /\ Dragging
  /\ RLt(dragOffset.x, Zero)
  /\ RLt(RNeg(PanBound(imageData.width, containerData.width, zoomLevel)),
         dragOffset.x)
  /\ RLt(Zero, dragOffset.y)

(***************************************************************************)
(* C8.  A double click at a screen point, with the image handle available, *)
(* sets the pin to ((screenX - originX) / ZoomLevel,                       *)
(* (screenY - originY) / ZoomLevel) with the zoom level of that moment,    *)
(* replacing the pin there was, and changes nothing else; with the handle  *)
(* unavailable it changes nothing.                                         *)
(***************************************************************************)
C8_PinPlacement ==
  [][last' = "doubleClick" =>
       /\ <<zoomLevel, dragOffset, dragData, zoomData, offsetData>>' =
            <<zoomLevel, dragOffset, dragData, zoomData, offsetData>>
       /\ IF containerData.imageRef # "null"
          THEN pin' = [x |-> RDiv(Num(placed'.dx), zoomLevel),
                       y |-> RDiv(Num(placed'.dy), zoomLevel)]
          ELSE pin' = pin
    ]_vars

\* a double click at a zoom level other than 1 has placed the pin
C8_Witness ==
  /\ last = "doubleClick"
  /\ zoomLevel # Num(1)
  /\ pin.x # Num(placed.dx)
  /\ pin.x # Zero
  /\ containerData.imageRef # "null"

(***************************************************************************)
(* C9.  Only a double click changes the pin: zoomIn, zoomOut, pointerDown, *)
(* pointerMove, pointerUp, open, close and the image load leave it as it   *)
(* is.                                                                     *)
(***************************************************************************)
C9_PinOnlyByDoubleClick ==
  [][pin' # pin => last' = "doubleClick"]_vars

\* a placed pin that is still there after the view was closed and reopened
C9_Witness ==
  /\ pin.x # Zero
  /\ last = "open"
  /\ zoomLevel # placed.zoom

(***************************************************************************)
(* C10.  Pin invariance: for a pin placed at offset p - origin while the   *)
(* zoom level was z1, at any later zoom level z2 the stored pin is still   *)
(* (p - origin) / z1 and the marker shows at pin * z2 =                    *)
(* (p - origin) * z2 / z1 from the origin.                                 *)
(***************************************************************************)
C10_PinInvariance ==
  placed.set =>
    /\ pin = [x |-> RDiv(Num(placed.dx), placed.zoom),
              y |-> RDiv(Num(placed.dy), placed.zoom)]
    /\ pinMarker = [x |-> RDiv(RMul(Num(placed.dx), zoomLevel), placed.zoom),
                    y |-> RDiv(RMul(Num(placed.dy), zoomLevel), placed.zoom)]

\* the zoom level has been stepped away from the one the pin was placed at
C10_Witness ==
  /\ placed.set
  /\ last \in {"zoomIn", "zoomOut"}
  /\ RLt(placed.zoom, zoomLevel)
  /\ pinMarker.x # Num(placed.dx)

(***************************************************************************)
(* C11.  Until the first double click the pin is absent and no pin marker  *)
(* is rendered: in every state reached without a double click the marker   *)
(* is not part of the output.                                              *)
(***************************************************************************)
C11_NoPinBeforeDoubleClick ==
  ~placed.set => ~pinMarkerRendered

(***************************************************************************)
(* The zoom range as the statements give it.                               *)
(***************************************************************************)

One == Num(1)

\* the image of size iw x ih fits the container of size cw x ch as it is
Fits(iw, ih, cw, ch) == RLe(iw, cw) /\ RLe(ih, ch)

\* computeRange(image, container).min
FitMin(iw, ih, cw, ch) ==
  IF Fits(iw, ih, cw, ch) THEN One
  ELSE LET rw == RDiv(cw, iw)
           rh == RDiv(ch, ih)
       IN  IF RLt(rh, rw) THEN rh ELSE rw

\* m is the largest scale <= 1 at which the scaled image fits the container
LargestFittingScale(m, iw, ih, cw, ch) ==
  /\ RLe(m, One)
  /\ RLe(RMul(iw, m), cw)
  /\ RLe(RMul(ih, m), ch)
  /\ RLt(m, One) => (RMul(iw, m) = cw \/ RMul(ih, m) = ch)

\* the container metrics have been recorded (the large view has mounted)
ContainerRecorded == containerData.imageRef # "null"

(***************************************************************************)
(* C12 as stated.  In every reachable state in which both the image        *)
(* metrics and the container metrics have been recorded, ZoomRange.min is  *)
(* 1 if the image fits the container and min(containerW / imageW,          *)
(* containerH / imageH) otherwise, and ZoomRange.max = 3 >= min.           *)
(***************************************************************************)
C12_RangeFitsCurrentMetrics ==
  (imageLoaded /\ ContainerRecorded) =>
    /\ zoomData.min = FitMin(imageData.width, imageData.height,
                             containerData.width, containerData.height)
    /\ zoomData.max = Num(3)
    /\ RLe(zoomData.min, zoomData.max)

(***************************************************************************)
(* C12 as amended.  In every reachable state in which both metrics have    *)
(* been recorded and the container metrics were last recorded with the     *)
(* image metrics already those of the loaded image, ZoomRange.min is the   *)
(* largest scale <= 1 at which the scaled image fits the container: 1 if   *)
(* the image fits, min(containerW / imageW, containerH / imageH)           *)
(* otherwise; and ZoomRange.max = 3 >= min.                                *)
(***************************************************************************)
C12_RangeFitsMeasuredMetrics ==
  (imageLoaded /\ ContainerRecorded /\ measured = imageData) =>
    /\ zoomData.min = FitMin(imageData.width, imageData.height,
                             containerData.width, containerData.height)
    /\ LargestFittingScale(zoomData.min, imageData.width, imageData.height,
                           containerData.width, containerData.height)
    /\ zoomData.max = Num(3)
    /\ RLe(zoomData.min, zoomData.max)

\* the loaded image is wider than the container but fits it in width at a
\* scale at which it is still too high: the height decides the range
C12_Witness ==
  /\ imageLoaded
  /\ ContainerRecorded
  /\ measured = imageData
  /\ RLt(containerData.width, imageData.width)
  /\ RLt(zoomData.min, RDiv(containerData.width, imageData.width))
  /\ RLt(Zero, zoomData.min)

(***************************************************************************)
(* C13 as stated.  ZoomRange.min <= 1 if and only if the image the range   *)
(* was computed for is at least as large as the container on some axis;    *)
(* and ZoomRange.min <= ZoomRange.max.                                     *)
(***************************************************************************)
C13_MinAtMostOneIffAsLarge ==
  /\ RLe(zoomData.min, One) <=>
       (\/ RLe(containerData.width, measured.width)
        \/ RLe(containerData.height, measured.height))
  /\ RLe(zoomData.min, zoomData.max)

(***************************************************************************)
(* C13 as amended.  ZoomRange.min < 1 if and only if the image the range   *)
(* was computed for is larger than the container on some axis;             *)
(* ZoomRange.min <= 1 and ZoomRange.min <= ZoomRange.max always.           *)
(***************************************************************************)
C13_MinBelowOneIffLarger ==
  /\ RLt(zoomData.min, One) <=>
       (\/ RLt(containerData.width, measured.width)
        \/ RLt(containerData.height, measured.height))
  /\ RLe(zoomData.min, One)
  /\ RLe(zoomData.min, zoomData.max)

\* a range computed for an image larger than the container on one axis only
C13_Witness ==
  /\ last = "open"
  /\ RLt(containerData.width, measured.width)
  /\ RLt(measured.height, containerData.height)
  /\ RLt(zoomData.min, One)

(***************************************************************************)
(* What the statements call the container metrics, and the pin and the pan *)
(* offset of a session that has not placed or panned anything.             *)
(***************************************************************************)

ContainerMetrics == <<containerData.width, containerData.height>>

NoPin == [x |-> Zero, y |-> Zero]

NoPan == [x |-> Zero, y |-> Zero]

(***************************************************************************)
(* C14 as stated.  open() and close() only toggle the visibility: zoom     *)
(* level, pan offset, pin, drag session, zoom range and base offset are    *)
(* after any open() or close() what they were before it.                   *)
(***************************************************************************)
C14_OpenCloseOnlyToggle ==
  [][last' \in {"open", "close"} =>
       /\ zoomLevel' = zoomLevel
       /\ dragOffset' = dragOffset
       /\ pin' = pin
       /\ Dragging' = Dragging
       /\ ZoomRange' = ZoomRange
       /\ BaseOffset' = BaseOffset
    ]_vars

(***************************************************************************)
(* C14 as amended.  close() only toggles the visibility: zoom level, pan   *)
(* offset, pin, drag session, zoom range and base offset are after it what *)
(* they were before it.  open() shows the view and leaves the pin and the  *)
(* drag session as they were; it records the container metrics again and   *)
(* initialises zoom range, base offset, zoom level and pan offset anew.    *)
(***************************************************************************)
C14_CloseOnlyToggles ==
  [][/\ last' = "close" =>
          /\ ~shouldDisplayModal'
          /\ zoomLevel' = zoomLevel
          /\ dragOffset' = dragOffset
          /\ pin' = pin
          /\ Dragging' = Dragging
          /\ ZoomRange' = ZoomRange
          /\ BaseOffset' = BaseOffset
          /\ ContainerMetrics' = ContainerMetrics
     /\ last' = "open" =>
          /\ shouldDisplayModal'
          /\ pin' = pin
          /\ Dragging' = Dragging
    ]_vars

\* the view was closed with the image zoomed, panned and pinned, and all of
\* it is still there
C14_Witness ==
  /\ last = "close"
  /\ RLt(zoomData.min, zoomLevel)
  /\ dragOffset # NoPan
  /\ placed.set
  /\ pin # NoPin

(***************************************************************************)
(* C15.  When the viewer is reopened all mutable session state is reset:   *)
(* ZoomLevel = ZoomRange.min, PanOffset = (0, 0), no pin (the pin is the   *)
(* one of a fresh session), drag session Idle, whatever they were before   *)
(* the close.                                                              *)
(***************************************************************************)
C15_ReopenResetsAll ==
  last = "open" =>
    /\ zoomLevel = zoomData.min
    /\ dragOffset = NoPan
    /\ pin = NoPin
    /\ ~Dragging

(***************************************************************************)
(* C16 as stated.  Write once: after the first container-metrics           *)
(* initialisation no later event changes ZoomRange.min, ZoomRange.max,     *)
(* BaseOffset or the recorded container metrics.                           *)
(***************************************************************************)
C16_WriteOnce ==
  [][ContainerRecorded =>
       /\ ZoomRange' = ZoomRange
       /\ BaseOffset' = BaseOffset
       /\ ContainerMetrics' = ContainerMetrics
    ]_vars

(***************************************************************************)
(* C16 as amended.  After the first container-metrics initialisation no    *)
(* later event other than a further container mount (a reopening) changes  *)
(* ZoomRange.min, ZoomRange.max, BaseOffset or the recorded container      *)
(* metrics: zoomIn, zoomOut, the pointer events, doubleClick, close and a  *)
(* later image load leave them as they are.                                *)
(***************************************************************************)
C16_WrittenByMountOnly ==
  [][last' # "open" =>
       /\ ZoomRange' = ZoomRange
       /\ BaseOffset' = BaseOffset
       /\ ContainerMetrics' = ContainerMetrics
    ]_vars

\* the image has loaded after the container was measured, and the base
\* offset is still the one computed for the image metrics before the load
C16_Witness ==
  /\ last = "load"
  /\ ContainerRecorded
  /\ measured # imageData
  /\ BaseOffset =
       <<RDiv(RSub(measured.width, containerData.width), Num(2)),
         RDiv(RSub(measured.height, containerData.height), Num(2))>>

C18_PanWriters ==
  [][/\ dragOffset' # dragOffset =>
          \/ last' = "pointerMove" /\ Dragging
          \/ last' = "zoomOut"
          \/ last' = "open"
     /\ last' = "zoomIn" =>
          LET bx  == PanBound(imageData.width, containerData.width, zoomLevel)
              by  == PanBound(imageData.height, containerData.height, zoomLevel)
              bx2 == PanBound(imageData.width, containerData.width, zoomLevel')
              by2 == PanBound(imageData.height, containerData.height,
                              zoomLevel')
          IN  /\ dragOffset' = dragOffset
              /\ RLe(zoomLevel, zoomLevel')
              /\ RLe(bx, bx2) /\ RLe(by, by2)
              /\ RLe(RNeg(bx2), dragOffset'.x) /\ RLe(dragOffset'.x, bx2)
              /\ RLe(RNeg(by2), dragOffset'.y) /\ RLe(dragOffset'.y, by2)
    ]_vars

\* a zoomIn has left a panned image where it was, now strictly inside the
\* wider bound
C18_Witness ==
  /\ last = "zoomIn"
  /\ dragOffset.x # Zero
  /\ LET bx == PanBound(imageData.width, containerData.width, zoomLevel)
     IN  RLt(RNeg(bx), dragOffset.x) /\ RLt(dragOffset.x, bx)

\* the container was measured while the image metrics were the default {1, 1}
MeasuredBeforeLoad ==
  /\ last = "open"
  /\ ~imageLoaded
  /\ measured = [width |-> One, height |-> One]

(***************************************************************************)
(* C19 as stated.  If the container metrics are recorded while the image   *)
(* metrics are still the pre-load default {1, 1}, then for every           *)
(* non-negative container size the zoom range is {min: 1, max: 3} and      *)
(* ZoomLevel is initialised to 1.                                          *)
(***************************************************************************)
C19_PreLoadRangeAnySize ==
  MeasuredBeforeLoad =>
    /\ ZoomRange = <<One, Num(3)>>
    /\ zoomLevel = One

(***************************************************************************)
(* C19 as amended.  If the container metrics are recorded while the image  *)
(* metrics are still the pre-load default {1, 1}, then for every container *)
(* size of at least 1 on both axes the zoom range is {min: 1, max: 3} and  *)
(* ZoomLevel is initialised to 1; with a container side of 0 the range is  *)
(* {min: 0, max: 3} and ZoomLevel is initialised to 0.                     *)
(***************************************************************************)
C19_PreLoadRange ==
  MeasuredBeforeLoad =>
    IF RLe(One, containerData.width) /\ RLe(One, containerData.height)
    THEN ZoomRange = <<One, Num(3)>> /\ zoomLevel = One
    ELSE ZoomRange = <<Zero, Num(3)>> /\ zoomLevel = Zero

\* a container exactly as large as the default image metrics was measured
\* before the load
C19_Witness ==
  /\ MeasuredBeforeLoad
  /\ ContainerMetrics = <<One, One>>
  /\ zoomLevel = One

(***************************************************************************)
(* C20.  After every event handler the mutable cache equals the observable *)
(* state: zoomDataRef.current.current = zoomLevel and (offsetDataRef.dragX,*)
(* offsetDataRef.dragY) = (dragOffset.x, dragOffset.y), in every reachable *)
(* state, the initial one included.                                        *)
(***************************************************************************)
C20_CacheAgreesWithState ==
  /\ zoomData.current = zoomLevel
  /\ <<offsetData.dragX, offsetData.dragY>> = <<dragOffset.x, dragOffset.y>>

\* a drag move has panned the zoomed image
C20_Witness ==
  /\ last = "pointerMove"
  /\ zoomLevel # One
  /\ dragOffset.x # Zero
  /\ offsetData.dragX = dragOffset.x

====
